---- MODULE Spec2Model ----
(***************************************************************************)
(* A model of devs/ibuttons.py (class MacroHandler): one run reads the     *)
(* configuration, ingests every CSV file of the directory, validates the   *)
(* sample rates and units, resolves the day directive and builds the       *)
(* workbook processedData.xlsx, which is saved by the last statement of    *)
(* build_xlsx_file.  The workbook on disk survives from one run to the     *)
(* next.                                                                   *)
(***************************************************************************)
EXTENDS Integers, Sequences, FiniteSets, TLC

VARIABLES
    pc,                 \* position of the run inside main / build_xlsx_file
    run,                \* number of runs started so far
    config,             \* content of ibuttons.config for this run
    files,              \* the CSV files os.listdir returns, in listing order
    self,               \* the attributes of the MacroHandler object
    list_with_all_data, \* main's dict: sequence of [key, data], insertion order
    idx,                \* index of the loop in progress (files / subjects)
    wb,                 \* the workbook in memory: sheet name -> sheet
    disk,               \* processedData.xlsx: [exists, wb]
    err,                \* the exception that ended the run, if any
    diskBefore,         \* disk as it was when the run started
    written,            \* cells <<sheet, row, col>> written during this run
    clobbered,          \* cells written twice, or cleared after being written
    stages,             \* the stages the run has entered, in order
    probe               \* argument and result of a single call of a pure method

vars == <<pc, run, config, files, self, list_with_all_data, idx, wb, disk, err,
          diskBefore, written, clobbered, stages, probe>>

(***************************************************************************)
(* Bounds of the model.                                                    *)
(***************************************************************************)
MaxRuns == 2
MaxFiles == 2
MaxOrdinal == 710
MaxLen == 5
MaxDay == 3

Max(a, b) == IF a >= b THEN a ELSE b
Min(a, b) == IF a <= b THEN a ELSE b

Range(s) == {s[k] : k \in DOMAIN s}

\* Sequences over S of length at most n.
SeqUpTo(S, n) == UNION {[1..k -> S] : k \in 0..n}

\* Python's s[a:b] on a list (a, b 0-based, negative values count from the end).
PySlice(s, a, b) ==
    LET n  == Len(s)
        lo == IF a < 0 THEN Max(a + n, 0) ELSE Min(a, n)
        hi == IF b < 0 THEN Max(b + n, 0) ELSE Min(b, n)
    IN  IF hi <= lo THEN <<>> ELSE SubSeq(s, lo + 1, hi)

(***************************************************************************)
(* convert_number_to_excel_column                                          *)
(***************************************************************************)
Upper == <<"A","B","C","D","E","F","G","H","I","J","K","L","M",
           "N","O","P","Q","R","S","T","U","V","W","X","Y","Z">>
Lowercase == <<"a","b","c","d","e","f","g","h","i","j","k","l","m",
               "n","o","p","q","r","s","t","u","v","w","x","y","z">>

\* chr(65 + remainder)
Chr65(remainder) == Upper[remainder + 1]

\* The while loop of the method: n, remainder = divmod(n - 1, 26), letter prepended.
RECURSIVE ColumnLoop(_, _)
ColumnLoop(n, result) ==
    IF n > 0
    THEN ColumnLoop((n - 1) \div 26, <<Chr65((n - 1) % 26)>> \o result)
    ELSE result

\* The same loop with divmod(n, 26): the adjustment by -1 forgotten.
RECURSIVE ColumnLoopNoAdjust(_, _)
ColumnLoopNoAdjust(n, result) ==
    IF n > 0
    THEN ColumnLoopNoAdjust(n \div 26, <<Chr65(n % 26)>> \o result)
    ELSE result

convert_number_to_excel_column_noadjust(n, offset) == ColumnLoopNoAdjust(n + offset, <<>>)

convert_number_to_excel_column(n, offset) == ColumnLoop(n + offset, <<>>)

(***************************************************************************)
(* save_by_experimental_days: the chunks                                   *)
(***************************************************************************)
\* int((24*60)/sampleRate), for a sample rate >= 1
RecordsPerDay(sampleRate) == (24 * 60) \div sampleRate

\* for i in range(0, len(data_list), records_per_day): data_list[i:i+records_per_day]
SliceChunks(data_list, records_per_day) ==
    LET n == Len(data_list)
        k == (n + records_per_day - 1) \div records_per_day
    IN  [c \in 1..k |->
            PySlice(data_list, (c - 1) * records_per_day, c * records_per_day)]

\* if self.repeatLastValue: chunks[chunk-1].append(chunks[chunk][0]), chunk = 1..len-1
RepeatLast(chunks) ==
    [c \in 1..Len(chunks) |->
        IF c < Len(chunks) THEN Append(chunks[c], chunks[c + 1][1]) ELSE chunks[c]]

\* The slices one element short: data_list[i:i+records_per_day-1].
SliceChunksShort(data_list, records_per_day) ==
    LET n == Len(data_list)
        k == (n + records_per_day - 1) \div records_per_day
    IN  [c \in 1..k |->
            PySlice(data_list, (c - 1) * records_per_day, c * records_per_day - 1)]

\* The boundary value taken from the chunk itself instead of the following one.
RepeatLastOwn(chunks) ==
    [c \in 1..Len(chunks) |->
        IF c < Len(chunks) THEN Append(chunks[c], chunks[c][1]) ELSE chunks[c]]

ChunksShort(data_list, records_per_day, repeatLastValue) ==
    IF repeatLastValue THEN RepeatLast(SliceChunksShort(data_list, records_per_day))
    ELSE SliceChunksShort(data_list, records_per_day)

ChunksOwn(data_list, records_per_day, repeatLastValue) ==
    IF repeatLastValue THEN RepeatLastOwn(SliceChunks(data_list, records_per_day))
    ELSE SliceChunks(data_list, records_per_day)

Chunks(data_list, records_per_day, repeatLastValue) ==
    IF repeatLastValue THEN RepeatLast(SliceChunks(data_list, records_per_day))
    ELSE SliceChunks(data_list, records_per_day)

(***************************************************************************)
(* Strings the code inspects character by character are sequences of       *)
(* one-character strings; str.lower() maps each capital to its small       *)
(* letter and leaves every other character alone.                          *)
(***************************************************************************)
LowerChar(c) ==
    IF \E k \in DOMAIN Upper : Upper[k] = c
    THEN Lowercase[CHOOSE k \in DOMAIN Upper : Upper[k] = c]
    ELSE c

Lower(str) == [k \in DOMAIN str |-> LowerChar(str[k])]

UpperChar(c) ==
    IF \E k \in DOMAIN Lowercase : Lowercase[k] = c
    THEN Upper[CHOOSE k \in DOMAIN Lowercase : Lowercase[k] = c]
    ELSE c

\* The casings of a string given in small letters.
Casings(str) ==
    {s \in [DOMAIN str -> Range(str) \cup {UpperChar(c) : c \in Range(str)}] :
        \A k \in DOMAIN str : s[k] \in {str[k], UpperChar(str[k])}}

StrDirective(str) == [isStr |-> TRUE, str |-> str, list |-> <<>>]
ListDirective(list) == [isStr |-> FALSE, str |-> <<>>, list |-> list]

(***************************************************************************)
(* Exceptions.  kind is the class of the specification's taxonomy; names   *)
(* says which values the message holds, total_days, days and units are     *)
(* those values.                                                           *)
(***************************************************************************)
NoErr == [kind |-> "", names |-> {}, total_days |-> 0, days |-> <<>>, units |-> <<>>]
Error(kind) == [NoErr EXCEPT !.kind = kind]

FatalKinds ==
    {"ConfigError", "MetadataNotFound", "InconsistentInput", "InvalidDirective", "OutOfRange"}

(***************************************************************************)
(* main, lines 305-317: the day directive against the number of days.      *)
(***************************************************************************)
\* total_days = (total_records + records_per_day - 1) // records_per_day
TotalDays(startRow, endRow, records_per_day) ==
    LET total_records == endRow - startRow + 1
    IN  (total_records + records_per_day - 1) \div records_per_day

\* The message without the number of days.
OutOfRangeErrorNoTotal(total_days, daysToProcess) ==
    [NoErr EXCEPT !.kind = "OutOfRange", !.names = {}]

\* raise ValueError(f"One or more values in daysToReport exceed ... ({total_days}).")
OutOfRangeError(total_days, daysToProcess) ==
    [NoErr EXCEPT !.kind = "OutOfRange", !.names = {"total_days"},
                  !.total_days = total_days]

\* all(day <= total_days for day in self.daysToProcess), compared with < instead.
AllInRangeStrict(list, total_days) == \A k \in DOMAIN list : list[k] < total_days

AllInRange(list, total_days) == \A k \in DOMAIN list : list[k] <= total_days

\* The result: the exception raised (kind "" when none) and the two attributes
\* the lines assign.
ResolveDays(daysToProcess, startRow, endRow, sampleRate) ==
    LET same == [err |-> NoErr, daysToProcess |-> daysToProcess, computeAverage |-> TRUE]
    IN  IF sampleRate = 0 \/ RecordsPerDay(sampleRate) = 0
        THEN [same EXCEPT !.err = Error("ZeroDivisionError")]
        ELSE LET total_days == TotalDays(startRow, endRow, RecordsPerDay(sampleRate))
             IN  IF ~daysToProcess.isStr
                 THEN IF ~AllInRange(daysToProcess.list, total_days)
                      THEN [same EXCEPT !.err = OutOfRangeError(total_days, daysToProcess)]
                      ELSE same
                 ELSE IF Lower(daysToProcess.str) = <<"a", "l", "l">>
                      THEN [same EXCEPT !.daysToProcess =
                                ListDirective([d \in 1..Max(total_days, 0) |-> d])]
                      ELSE IF Lower(daysToProcess.str) = <<"n", "o", "n", "e">>
                      THEN [same EXCEPT !.computeAverage = FALSE]
                      ELSE [same EXCEPT !.err = Error("InvalidDirective")]

(***************************************************************************)
(* CSV tables.  A table is a sequence of rows, a row a sequence of cells.  *)
(* A cell records what the code can read from its text: tag "rate" is a    *)
(* cell containing "Sample Rate" (n its first integer, -1 when it has no   *)
(* digit), "alarm" a cell containing a temperature alarm (u the unit the   *)
(* pattern finds, "" when it finds none), "num" a cell float() accepts     *)
(* (n its value); tok lists the whitespace-separated words of the text,    *)
(* a word in HH:MM format as its minute of the day and any other as -1.    *)
(***************************************************************************)
RateCell(n)  == [tag |-> "rate",  n |-> n, u |-> "", tok |-> <<-1>>]
AlarmCell(u) == [tag |-> "alarm", n |-> 0, u |-> u,  tok |-> <<-1>>]
NumCell(n)   == [tag |-> "num",   n |-> n, u |-> "", tok |-> <<-1>>]
TextCell     == [tag |-> "text",  n |-> 0, u |-> "", tok |-> <<-1>>]
StampCell(tok) == [tag |-> "text", n |-> 0, u |-> "", tok |-> tok]

RECURSIVE Flatten(_)
Flatten(seqs) == IF seqs = <<>> THEN <<>> ELSE Head(seqs) \o Flatten(Tail(seqs))

SetMin(S) == CHOOSE x \in S : \A y \in S : x <= y
SetMax(S) == CHOOSE x \in S : \A y \in S : x >= y

\* The sample rate of the first cell that holds one; -1 for "Sample rate not found".
get_sample_rate(reader) ==
    LET cells == Flatten(reader)
        hits  == {k \in DOMAIN cells : cells[k].tag = "rate" /\ cells[k].n >= 0}
    IN  IF hits = {} THEN -1 ELSE cells[SetMin(hits)].n

\* The unit of the first alarm cell that holds one; "" for "Units not found".
get_units(reader) ==
    LET cells == Flatten(reader)
        hits  == {k \in DOMAIN cells : cells[k].tag = "alarm" /\ cells[k].u # ""}
    IN  IF hits = {} THEN "" ELSE cells[SetMin(hits)].u

\* The rows of lines[startRow:endRow + 1] whose third cell is a number; a row
\* that raises (fewer than three cells, float() fails) is skipped.
RECURSIVE CleanRows(_)
CleanRows(rows) ==
    IF rows = <<>> THEN <<>>
    ELSE LET row == Head(rows)
         IN  IF Len(row) >= 3 /\ row[3].tag = "num"
             THEN <<[ts |-> row[1].tok, value |-> row[3].n]>> \o CleanRows(Tail(rows))
             ELSE CleanRows(Tail(rows))

clean_data(lines, startRow, endRow) == CleanRows(PySlice(lines, startRow, endRow + 1))

\* extract_time: the second word, or the string itself when it has no second word.
extract_time(tok) ==
    IF Len(tok) >= 2 THEN tok[2] ELSE IF Len(tok) = 1 THEN tok[1] ELSE -1

\* get_next_time on a string in HH:MM format: strftime keeps the time of day.
get_next_time(time, sampleRate) == (time + sampleRate) % (24 * 60)

(***************************************************************************)
(* Worksheets.  A sheet is a function from <<row, column>> to the cell's   *)
(* value; a write is [row, col, v].  The values are records: text (a       *)
(* literal string), unitsLine, stamp, value, day ("Day N"), time,          *)
(* avgOf (=AVERAGE of a list of [sheet, col, row] references) and          *)
(* avgFrom/avgTo (=AVERAGE of the range between two [col, row] cells).     *)
(***************************************************************************)
EmptySheet == [p \in {} |-> 0]
EmptyBook  == [name \in {} |-> EmptySheet]

MaxColumn(sheet) == IF DOMAIN sheet = {} THEN 1 ELSE SetMax({p[2] : p \in DOMAIN sheet})
MaxRow(sheet)    == IF DOMAIN sheet = {} THEN 1 ELSE SetMax({p[1] : p \in DOMAIN sheet})

W(row, col, v) == [row |-> row, col |-> col, v |-> v]

Positions(writes) == {<<writes[k].row, writes[k].col>> : k \in DOMAIN writes}

\* The sheet after the writes, applied in order.
ApplyWrites(sheet, writes) ==
    [p \in DOMAIN sheet \cup Positions(writes) |->
        LET ks == {k \in DOMAIN writes : <<writes[k].row, writes[k].col>> = p}
        IN  IF ks = {} THEN sheet[p] ELSE writes[SetMax(ks)].v]

\* The cells a sequence of writes targets more than once.
Repeated(writes) ==
    {p \in Positions(writes) :
        Cardinality({k \in DOMAIN writes : <<writes[k].row, writes[k].col>> = p}) > 1}

OnSheet(name, positions) == {<<name, p[1], p[2]>> : p \in positions}

\* excel_sheet.append(values) as the row-th row of the sheet
AppendRow(row, values) == [c \in 1..Len(values) |-> W(row, c, values[c])]

\* save_raw_data on a sheet without rows
save_raw_data(units, data_list) ==
    AppendRow(1, <<[text |-> "Original CSV values"]>>)
    \o AppendRow(2, <<[unitsLine |-> units]>>)
    \o AppendRow(3, <<[text |-> "Date/Time"], [text |-> "Value"]>>)
    \o Flatten([k \in 1..Len(data_list) |->
           AppendRow(3 + k, <<[stamp |-> data_list[k].ts], [value |-> data_list[k].value]>>)])

\* save_by_experimental_days on the sheet save_raw_data has filled
save_by_experimental_days(excel_sheet, data_list, sampleRate, repeatLastValue) ==
    LET chunks == Chunks(data_list, RecordsPerDay(sampleRate), repeatLastValue)
        start_col == MaxColumn(excel_sheet) + 2
    IN  <<W(1, start_col, [text |-> "Processed values"])>>
        \o Flatten([day_index \in 1..Len(chunks) |->
              LET col == start_col + (day_index - 1)
              IN  <<W(3, col, [day |-> day_index])>>
                  \o [k \in 1..Len(chunks[day_index]) |->
                         W(4 + (k - 1), col, [value |-> chunks[day_index][k].value])]])

\* register_time, for a reference time in HH:MM format
RECURSIVE TimeAxis(_, _, _)
TimeAxis(time, sampleRate, count) ==
    IF count = 0 THEN <<>>
    ELSE <<time>> \o TimeAxis(get_next_time(time, sampleRate), sampleRate, count - 1)

register_time(reference_write, sampleRate, recordsPerDay) ==
    LET axis == TimeAxis(reference_write, sampleRate, recordsPerDay)
    IN  <<W(1, 1, [text |-> "Time"])>>
        \o [k \in 1..recordsPerDay |-> W(k + 1, 1, [time |-> axis[k]])]

\* build_average_formula_per_subject
build_average_formula_per_subject(numbers, title_per_column, row, offset) ==
    [avgOf |-> [k \in 1..Len(numbers) |->
        [sheet |-> title_per_column,
         col |-> convert_number_to_excel_column(numbers[k], offset),
         row |-> row]]]

\* compute_average_per_subject
compute_average_per_subject(daysToProcess, recordsPerDay, title_per_column, start_column) ==
    <<W(1, start_column, [text |-> title_per_column])>>
    \o [k \in 1..recordsPerDay |->
           W((k + 3) - 2, start_column,
             build_average_formula_per_subject(daysToProcess, title_per_column, k + 3, 3))]

\* The range ending at the output column itself.
build_average_formula_per_hour_self(ix, last_column) ==
    [avgFrom |-> [col |-> <<"A">>, row |-> ix],
     avgTo   |-> [col |-> convert_number_to_excel_column(last_column, 0), row |-> ix]]

\* build_average_formula_per_hour: =AVERAGE(A{idx}:{letter}{idx})
build_average_formula_per_hour(ix, last_column) ==
    [avgFrom |-> [col |-> <<"A">>, row |-> ix],
     avgTo   |-> [col |-> convert_number_to_excel_column(last_column - 1, 0), row |-> ix]]

\* compute_average_per_hour
compute_average_per_hour(excel_sheet) ==
    LET start_column == MaxColumn(excel_sheet) + 1
        last_row == MaxRow(excel_sheet)
    IN  <<W(1, start_column, [text |-> "Group average"])>>
        \o [k \in 1..(last_row - 1) |->
               W(k + 1, start_column, build_average_formula_per_hour(k + 1, start_column))]

(***************************************************************************)
(* The inputs of a run: the configuration file and the directory.          *)
(***************************************************************************)
\* An iButton export: the sample rate line, an alarm line, the column titles
\* and the readings, from the 4th line on.
Table(rate, unit, rows) ==
    <<<<RateCell(rate)>>, <<AlarmCell(unit)>>, <<TextCell, TextCell, TextCell>>>> \o rows

DataRow(time, value) == <<StampCell(<<-1, time>>), TextCell, NumCell(value)>>
BadRow(time) == <<StampCell(<<-1, time>>), TextCell, TextCell>>

File(id, key, lines) == [id |-> id, key |-> key, lines |-> lines]

FileSet ==
    { File(1, "s1", Table(720, "C",
          <<DataRow(600, 11), BadRow(1320), DataRow(600, 13), DataRow(1320, 14),
            DataRow(600, 15)>>)),
      File(2, "s2", Table(720, "C",
          <<DataRow(600, 21), DataRow(1320, 22), DataRow(600, 23), DataRow(1320, 24),
            DataRow(600, 25)>>)),
      File(3, "Group Average", Table(720, "C",
          <<DataRow(600, 31), DataRow(1320, 32), DataRow(600, 33), DataRow(1320, 34),
            DataRow(600, 35)>>)),
      File(4, "s4", Table(480, "F",
          <<DataRow(-1, 41), DataRow(-1, 42), DataRow(-1, 43), DataRow(-1, 44),
            DataRow(-1, 45)>>)),
      File(5, "s5", Table(720, "", <<DataRow(600, 51)>>)) }

\* The listings: at most MaxFiles files, in the order of their names.
Directories ==
    {d \in SeqUpTo(FileSet, MaxFiles) :
        \A j, k \in DOMAIN d : j < k => d[j].id < d[k].id}

Directives ==
    { StrDirective(<<"a", "L", "L">>), StrDirective(<<"N", "o", "n", "e">>),
      StrDirective(<<"a", "l">>),
      ListDirective(<<3, 1, 3>>), ListDirective(<<0>>) }

\* shape "ok" is a file json.load reads, with the four keys and values of the
\* required types (the days of a list still to be checked).
Config(shape, StartRow, EndRow, RepeatLastValue, DaysToProcess) ==
    [shape |-> shape, StartRow |-> StartRow, EndRow |-> EndRow,
     RepeatLastValue |-> RepeatLastValue, DaysToProcess |-> DaysToProcess]

NoConfig == Config("unreadable", 0, 0, FALSE, StrDirective(<<>>))

Configs ==
    {Config("ok", 4, e, r, d) : e \in {7, 8}, r \in BOOLEAN, d \in Directives}
    \cup {[NoConfig EXCEPT !.shape = sh] : sh \in {"unreadable", "missing_key", "wrong_type"}}

(***************************************************************************)
(* MacroHandler.__init__ (None is -1 or "")                                *)
(***************************************************************************)
NewHandler ==
    [startRow |-> -1, endRow |-> -1, repeatLastValue |-> FALSE, computeAverage |-> TRUE,
     validateSampleRate |-> <<>>, validateUnits |-> <<>>, sampleRate |-> -1,
     units |-> "", daysToProcess |-> StrDirective(<<>>), recordsPerDay |-> -1]

NoDisk == [exists |-> FALSE, wb |-> EmptyBook]

Keys(dict) == {dict[k].key : k \in DOMAIN dict}

\* dict[key] = data: a new key goes last, a known key keeps its place.
DictSet(dict, key, data) ==
    IF key \in Keys(dict)
    THEN [k \in DOMAIN dict |-> IF dict[k].key = key THEN [key |-> key, data |-> data]
                                ELSE dict[k]]
    ELSE Append(dict, [key |-> key, data |-> data])

(***************************************************************************)
(* main: the order of its calls.                                           *)
(***************************************************************************)
\* build_xlsx_file called before the day directive is resolved.
MainOrderBuildFirst == <<"get_config", "ingest", "validate", "build", "select_days">>

MainOrder == <<"get_config", "ingest", "validate", "select_days", "build">>

After(step) ==
    LET k == CHOOSE k \in DOMAIN MainOrder : MainOrder[k] = step
    IN  IF k < Len(MainOrder) THEN MainOrder[k + 1] ELSE "done"

\* A stage is recorded when the run enters it.
Enter(stage) == IF stage \in Range(stages) /\ stages[Len(stages)] = stage
                THEN stages ELSE Append(stages, stage)

Abort(e) ==
    /\ pc' = "failed"
    /\ err' = e

NoProbe == [fn |-> "none"]

\* No run is in progress.
Idle ==
    /\ pc = "idle"
    /\ config = NoConfig
    /\ files = <<>>
    /\ self = NewHandler
    /\ list_with_all_data = <<>>
    /\ idx = 1
    /\ wb = EmptyBook
    /\ err = NoErr
    /\ diskBefore = NoDisk
    /\ written = {}
    /\ clobbered = {}
    /\ stages = <<>>

Init ==
    /\ Idle
    /\ run = 0
    /\ disk = NoDisk
    /\ probe = NoProbe

\* The program is started: a MacroHandler is made and main called.
StartRun ==
    /\ pc = "idle"
    /\ run < MaxRuns
    /\ \E c \in Configs, d \in Directories :
          /\ config' = c
          /\ files' = d
    /\ run' = run + 1
    /\ self' = NewHandler
    /\ list_with_all_data' = <<>>
    /\ idx' = 1
    /\ wb' = EmptyBook
    /\ err' = NoErr
    /\ diskBefore' = disk
    /\ written' = {}
    /\ clobbered' = {}
    /\ stages' = <<>>
    /\ pc' = MainOrder[1]
    /\ UNCHANGED <<disk, probe>>

\* get_config
GetConfig ==
    /\ pc = "get_config"
    /\ IF config.shape # "ok"
          \/ (~config.DaysToProcess.isStr
              /\ \E k \in DOMAIN config.DaysToProcess.list : config.DaysToProcess.list[k] <= 0)
       THEN /\ Abort(Error("ConfigError"))
            /\ UNCHANGED self
       ELSE /\ self' = [self EXCEPT !.startRow = config.StartRow - 1,
                                    !.endRow = config.EndRow - 1,
                                    !.repeatLastValue = config.RepeatLastValue,
                                    !.daysToProcess = config.DaysToProcess]
            /\ pc' = After("get_config")
            /\ UNCHANGED err
    /\ UNCHANGED <<run, config, files, list_with_all_data, idx, wb, disk, diskBefore,
                   written, clobbered, stages, probe>>

\* main's loop over the CSV files: get_data_from_csv on the next file
Ingest ==
    /\ pc = "ingest"
    /\ stages' = Enter("INGEST")
    /\ IF Len(files) = 0
       THEN /\ pc' = After("ingest")
            /\ UNCHANGED <<self, list_with_all_data, idx, err>>
       ELSE LET file == files[idx]
                sample_rate == get_sample_rate(file.lines)
                units == get_units(file.lines)
                rates == Append(self.validateSampleRate, sample_rate)
            IN  IF sample_rate = -1
                THEN /\ Abort(Error("MetadataNotFound"))
                     /\ UNCHANGED <<self, list_with_all_data, idx>>
                ELSE IF units = ""
                THEN /\ Abort(Error("MetadataNotFound"))
                     /\ self' = [self EXCEPT !.validateSampleRate = rates]
                     /\ UNCHANGED <<list_with_all_data, idx>>
                ELSE /\ self' = [self EXCEPT !.validateSampleRate = rates,
                                    !.validateUnits = Append(self.validateUnits, units)]
                     /\ list_with_all_data' =
                            DictSet(list_with_all_data, file.key,
                                    clean_data(file.lines, self.startRow, self.endRow))
                     /\ idx' = idx + 1
                     /\ pc' = IF idx = Len(files) THEN After("ingest") ELSE "ingest"
                     /\ UNCHANGED err
    /\ UNCHANGED <<run, config, files, wb, disk, diskBefore, written, clobbered, probe>>

\* len(set(values)) >= 1: any list that is not empty passes.
NotEmpty(values) == Cardinality(Range(values)) >= 1

\* len(set(values)) == 1
AllSame(values) == Cardinality(Range(values)) = 1

\* main, lines 297-304
Validate ==
    /\ pc = "validate"
    /\ stages' = Enter("VALIDATE")
    /\ IF ~AllSame(self.validateSampleRate)
       THEN /\ Abort(Error("InconsistentInput"))
            /\ UNCHANGED self
       ELSE IF ~AllSame(self.validateUnits)
       THEN /\ Abort([Error("InconsistentInput") EXCEPT !.names = {"units"},
                                                       !.units = self.validateUnits])
            /\ self' = [self EXCEPT !.sampleRate = self.validateSampleRate[1]]
       ELSE /\ self' = [self EXCEPT !.sampleRate = self.validateSampleRate[1],
                                    !.units = self.validateUnits[1]]
            /\ pc' = After("validate")
            /\ UNCHANGED err
    /\ UNCHANGED <<run, config, files, list_with_all_data, idx, wb, disk, diskBefore,
                   written, clobbered, probe>>

\* main, lines 305-317
SelectDays ==
    /\ pc = "select_days"
    /\ stages' = Enter("SELECT_DAYS")
    /\ LET r == ResolveDays(self.daysToProcess, self.startRow, self.endRow, self.sampleRate)
       IN  IF r.err.kind # ""
           THEN /\ Abort(r.err)
                /\ UNCHANGED self
           ELSE /\ self' = [self EXCEPT !.daysToProcess = r.daysToProcess,
                                        !.computeAverage = r.computeAverage]
                /\ pc' = After("select_days")
                /\ UNCHANGED err
    /\ UNCHANGED <<run, config, files, list_with_all_data, idx, wb, disk, diskBefore,
                   written, clobbered, probe>>

(***************************************************************************)
(* build_xlsx_file                                                         *)
(***************************************************************************)
GA_sheet_name == "Group Average"

\* main, line 318: the time of day of the first reading of the first subject
ReferenceTime == extract_time(list_with_all_data[1].data[1].ts)

\* The sheet of that name, cleared when the workbook has it and created otherwise.
\* Clearing a sheet this run has written to loses what it wrote.
ClearedBy(name) == IF name \in DOMAIN wb THEN {t \in written : t[1] = name} ELSE {}

\* The workbook with the sheet of that name set.
WithSheet(book, name, sheet) ==
    [n \in DOMAIN book \cup {name} |-> IF n = name THEN sheet ELSE book[n]]

\* The bookkeeping of a sequence of writes to one sheet.
Record(name, cleared, writes) ==
    LET targets == OnSheet(name, Positions(writes))
    IN  /\ written' = written \cup targets
        /\ clobbered' = clobbered \cup cleared
                        \cup (targets \cap written)
                        \cup OnSheet(name, Repeated(writes))

\* main, line 318, and build_xlsx_file, lines 167-175: the workbook is loaded when
\* the file exists and is new, without any sheet, when it does not.
BuildOpen ==
    /\ pc = "build"
    /\ IF list_with_all_data[1].data = <<>>
       THEN /\ Abort(Error("IndexError"))
            /\ UNCHANGED <<wb, idx>>
       ELSE /\ wb' = IF disk.exists THEN disk.wb ELSE EmptyBook
            /\ idx' = 1
            /\ pc' = "subjects"
            /\ UNCHANGED err
    /\ UNCHANGED <<run, config, files, self, list_with_all_data, disk, diskBefore,
                   written, clobbered, stages, probe>>

\* build_xlsx_file, lines 176-185: the sheet of the next subject
Subject ==
    /\ pc = "subjects"
    /\ stages' = Enter("PARTITION_AND_WRITE_RAW")
    /\ LET key == list_with_all_data[idx].key
           value == list_with_all_data[idx].data
           raw == save_raw_data(self.units, value)
           days == save_by_experimental_days(ApplyWrites(EmptySheet, raw), value,
                                             self.sampleRate, self.repeatLastValue)
       IN  /\ wb' = WithSheet(wb, key, ApplyWrites(EmptySheet, raw \o days))
           /\ Record(key, ClearedBy(key), raw \o days)
    /\ self' = [self EXCEPT !.recordsPerDay = RecordsPerDay(self.sampleRate)]
    /\ idx' = idx + 1
    /\ pc' = IF idx < Len(list_with_all_data) THEN "subjects"
             ELSE IF self.computeAverage THEN "group_sheet" ELSE "save"
    /\ UNCHANGED <<run, config, files, list_with_all_data, disk, err, diskBefore, probe>>

\* build_xlsx_file, lines 186-193: the Group Average sheet and its time axis.
\* get_next_time raises on a reference time that is not in HH:MM format, after
\* the title and the first time have been written.
GroupSheet ==
    /\ pc = "group_sheet"
    /\ stages' = Enter("COMPUTE_AVERAGES")
    /\ IF ReferenceTime < 0
       THEN LET writes == <<W(1, 1, [text |-> "Time"]), W(2, 1, [time |-> ReferenceTime])>>
            IN  /\ wb' = WithSheet(wb, GA_sheet_name, ApplyWrites(EmptySheet, writes))
                /\ Record(GA_sheet_name, ClearedBy(GA_sheet_name), writes)
                /\ Abort(Error("InvalidTime"))
                /\ UNCHANGED idx
       ELSE LET writes == register_time(ReferenceTime, self.sampleRate, self.recordsPerDay)
            IN  /\ wb' = WithSheet(wb, GA_sheet_name, ApplyWrites(EmptySheet, writes))
                /\ Record(GA_sheet_name, ClearedBy(GA_sheet_name), writes)
                /\ idx' = 1
                /\ pc' = "avg_subjects"
                /\ UNCHANGED err
    /\ UNCHANGED <<run, config, files, self, list_with_all_data, disk, diskBefore, probe>>

\* build_xlsx_file, lines 194-196: the column of the next subject.  A directive
\* that is still a string has characters where day numbers are expected.
AverageSubject ==
    /\ pc = "avg_subjects"
    /\ IF self.daysToProcess.isStr /\ self.daysToProcess.str # <<>>
       THEN /\ Abort(Error("TypeError"))
            /\ UNCHANGED <<wb, written, clobbered, idx>>
       ELSE LET key == list_with_all_data[idx].key
                writes == compute_average_per_subject(self.daysToProcess.list,
                                                      self.recordsPerDay, key, idx + 1)
            IN  /\ wb' = WithSheet(wb, GA_sheet_name, ApplyWrites(wb[GA_sheet_name], writes))
                /\ Record(GA_sheet_name, {}, writes)
                /\ idx' = idx + 1
                /\ pc' = IF idx < Len(list_with_all_data) THEN "avg_subjects" ELSE "avg_hour"
                /\ UNCHANGED err
    /\ UNCHANGED <<run, config, files, self, list_with_all_data, disk, diskBefore,
                   stages, probe>>

\* build_xlsx_file, line 197
AverageHour ==
    /\ pc = "avg_hour"
    /\ LET writes == compute_average_per_hour(wb[GA_sheet_name])
       IN  /\ wb' = WithSheet(wb, GA_sheet_name, ApplyWrites(wb[GA_sheet_name], writes))
           /\ Record(GA_sheet_name, {}, writes)
    /\ pc' = "save"
    /\ UNCHANGED <<run, config, files, self, list_with_all_data, idx, disk, err,
                   diskBefore, stages, probe>>

\* build_xlsx_file, line 198: wb.save
Save ==
    /\ pc = "save"
    /\ disk' = [exists |-> TRUE, wb |-> wb]
    /\ pc' = After("build")
    /\ UNCHANGED <<run, config, files, self, list_with_all_data, idx, wb, err,
                   diskBefore, written, clobbered, stages, probe>>

\* __main__, lines 328-336: the exception, if any, is printed and the process
\* exits; of the run only the file on disk remains.
Exit ==
    /\ pc \in {"done", "failed"}
    /\ pc' = "idle"
    /\ config' = NoConfig
    /\ files' = <<>>
    /\ self' = NewHandler
    /\ list_with_all_data' = <<>>
    /\ idx' = 1
    /\ wb' = EmptyBook
    /\ err' = NoErr
    /\ diskBefore' = NoDisk
    /\ written' = {}
    /\ clobbered' = {}
    /\ stages' = <<>>
    /\ UNCHANGED <<run, disk, probe>>

Next ==
    \/ StartRun
    \/ GetConfig
    \/ Ingest
    \/ Validate
    \/ SelectDays
    \/ BuildOpen
    \/ Subject
    \/ GroupSheet
    \/ AverageSubject
    \/ AverageHour
    \/ Save
    \/ Exit

Spec == Init /\ [][Next]_vars

(***************************************************************************)
(* Single calls of the pure methods, on arguments drawn from bounded sets. *)
(***************************************************************************)
pipeline == <<pc, run, config, files, self, list_with_all_data, idx, wb, disk, err,
              diskBefore, written, clobbered, stages>>

\* convert_number_to_excel_column(n, offset)
InitCodec ==
    /\ Idle
    /\ run = 0
    /\ disk = NoDisk
    /\ probe \in {[fn |-> "codec", n |-> n, offset |-> o, label |-> <<>>, done |-> FALSE] :
                     n \in (0 - 4)..MaxOrdinal, o \in {0, 3}}

CodecCall ==
    /\ probe.fn = "codec"
    /\ ~probe.done
    /\ probe' = [probe EXCEPT !.label = convert_number_to_excel_column(probe.n, probe.offset),
                              !.done = TRUE]
    /\ UNCHANGED pipeline

SpecCodec == InitCodec /\ [][CodecCall]_vars

\* The chunks of save_by_experimental_days
Reading(value) == [ts |-> <<-1, 600>>, value |-> value]

InitChunks ==
    /\ Idle
    /\ run = 0
    /\ disk = NoDisk
    /\ probe \in {[fn |-> "chunks", data_list |-> d, sampleRate |-> r,
                   repeatLastValue |-> b, chunks |-> <<>>, done |-> FALSE] :
                     d \in SeqUpTo({Reading(1), Reading(2)}, MaxLen),
                     r \in {1440, 720, 500, 480}, b \in BOOLEAN}

ChunksCall ==
    /\ probe.fn = "chunks"
    /\ ~probe.done
    /\ probe' = [probe EXCEPT !.chunks = Chunks(probe.data_list,
                                                RecordsPerDay(probe.sampleRate),
                                                probe.repeatLastValue),
                              !.done = TRUE]
    /\ UNCHANGED pipeline

SpecChunks == InitChunks /\ [][ChunksCall]_vars

\* main, lines 305-317
ProbeDirectives ==
    {StrDirective(s) : s \in Casings(<<"a", "l", "l">>) \cup Casings(<<"n", "o", "n", "e">>)
                             \cup {<<>>, <<"a", "l">>, <<"a", "l", "l", " ">>,
                                   <<"n", "o", "n", "e", "s">>}}
    \cup {ListDirective(l) : l \in SeqUpTo(1..(MaxDay + 1), 3)}

InitSelect ==
    /\ Idle
    /\ run = 0
    /\ disk = NoDisk
    /\ probe \in {[fn |-> "select", daysToProcess |-> d, startRow |-> a, endRow |-> b,
                   sampleRate |-> r,
                   out |-> [err |-> NoErr, daysToProcess |-> d, computeAverage |-> TRUE],
                   done |-> FALSE] :
                     d \in ProbeDirectives, a \in {0, 3}, b \in {1, 6, 7, 8},
                     r \in {0, 480, 720, 1440, 2000}}

SelectCall ==
    /\ probe.fn = "select"
    /\ ~probe.done
    /\ probe' = [probe EXCEPT !.out = ResolveDays(probe.daysToProcess, probe.startRow,
                                                  probe.endRow, probe.sampleRate),
                              !.done = TRUE]
    /\ UNCHANGED pipeline

SpecSelect == InitSelect /\ [][SelectCall]_vars

(***************************************************************************)
(* Properties                                                              *)
(***************************************************************************)
\* The value of a column label read as a bijective base-26 numeral, A = 1 .. Z = 26.
LetterValue(c) == CHOOSE k \in DOMAIN Upper : Upper[k] = c

RECURSIVE LabelValue(_)
LabelValue(label) ==
    IF label = <<>> THEN 0
    ELSE 26 * LabelValue(SubSeq(label, 1, Len(label) - 1)) + LetterValue(label[Len(label)])

\* The least t with a <= t * b, for b >= 1: ceil(a / b).
CeilDiv(a, b) ==
    LET m == Max(a, 0 - a) + 1
    IN  CHOOSE t \in (0 - m)..m : (t - 1) * b < a /\ a <= t * b

\* C3: with totalDays = ceil((endRow - startRow + 1) / recordsPerDay), "none" in any
\* casing disables averaging, "all" in any casing yields the list 1..totalDays, a list
\* whose elements are all <= totalDays is kept as it is, and any other string fails.
C3_DirectiveResolved ==
    (probe.fn = "select" /\ probe.done /\ probe.sampleRate \in 1..1440) =>
        LET d == probe.daysToProcess
            out == probe.out
            totalDays == CeilDiv(probe.endRow - probe.startRow + 1,
                                 1440 \div probe.sampleRate)
        IN  /\ (d.isStr /\ d.str \in Casings(<<"n", "o", "n", "e">>)) =>
                   (out.err = NoErr /\ ~out.computeAverage)
            /\ (d.isStr /\ d.str \in Casings(<<"a", "l", "l">>)) =>
                   /\ out.err = NoErr
                   /\ out.computeAverage
                   /\ ~out.daysToProcess.isStr
                   /\ Len(out.daysToProcess.list) = Max(totalDays, 0)
                   /\ \A k \in 1..totalDays : out.daysToProcess.list[k] = k
            /\ (~d.isStr /\ \A k \in DOMAIN d.list : d.list[k] <= totalDays) =>
                   (out.err = NoErr /\ out.computeAverage /\ out.daysToProcess = d)
            /\ (d.isStr /\ d.str \notin Casings(<<"n", "o", "n", "e">>)
                                        \cup Casings(<<"a", "l", "l">>)) =>
                   out.err.kind = "InvalidDirective"

\* C3, witness: "AlL" over a window of five rows at two records a day resolved to the days 1, 2, 3.
C3_Witness ==
    /\ probe.fn = "select" /\ probe.done
    /\ probe.daysToProcess = StrDirective(<<"A", "l", "L">>)
    /\ probe.startRow = 3 /\ probe.endRow = 7 /\ probe.sampleRate = 720
    /\ probe.out.daysToProcess = ListDirective(<<1, 2, 3>>)

\* C4 as stated: a list with a day above totalDays fails with an OutOfRange error
\* that names the offending days and totalDays.
C4_NamesOffendingDays ==
    (probe.fn = "select" /\ probe.done /\ probe.sampleRate \in 1..1440) =>
        LET d == probe.daysToProcess
            totalDays == CeilDiv(probe.endRow - probe.startRow + 1,
                                 1440 \div probe.sampleRate)
            offending == {x \in Range(d.list) : x > totalDays}
        IN  (~d.isStr /\ offending # {}) =>
                /\ probe.out.err.kind = "OutOfRange"
                /\ {"total_days", "days"} \subseteq probe.out.err.names
                /\ probe.out.err.total_days = totalDays
                /\ Range(probe.out.err.days) = offending

\* C4, amended: a list with a day above totalDays fails with an OutOfRange error
\* whose message holds totalDays and no day of the list.
C4_NamesTotalDaysOnly ==
    (probe.fn = "select" /\ probe.done /\ probe.sampleRate \in 1..1440) =>
        LET d == probe.daysToProcess
            totalDays == CeilDiv(probe.endRow - probe.startRow + 1,
                                 1440 \div probe.sampleRate)
        IN  (~d.isStr /\ \E k \in DOMAIN d.list : d.list[k] > totalDays) =>
                /\ probe.out.err.kind = "OutOfRange"
                /\ probe.out.err.names = {"total_days"}
                /\ probe.out.err.total_days = totalDays
                /\ probe.out.err.days = <<>>

\* C4, witness: the list 1, 4 against three days failed with OutOfRange, the message holding 3.
C4_Witness ==
    /\ probe.fn = "select" /\ probe.done
    /\ probe.daysToProcess = ListDirective(<<1, 4>>)
    /\ probe.startRow = 3 /\ probe.endRow = 8 /\ probe.sampleRate = 720
    /\ probe.out.err.kind = "OutOfRange"
    /\ probe.out.err.total_days = 3

\* C5: without repeatLastValue and with a sample rate r dividing 1440, a sequence of
\* k * (1440 / r) readings is cut into exactly k chunks of 1440 / r readings whose
\* concatenation is the sequence; for any other length only the last chunk is shorter.
C5_ChunksPartition ==
    (probe.fn = "chunks" /\ probe.done /\ ~probe.repeatLastValue
        /\ 1440 % probe.sampleRate = 0) =>
        LET recordsPerDay == 1440 \div probe.sampleRate
            n == Len(probe.data_list)
            chunks == probe.chunks
        IN  /\ Flatten(chunks) = probe.data_list
            /\ (n % recordsPerDay = 0) =>
                   /\ Len(chunks) = n \div recordsPerDay
                   /\ \A c \in DOMAIN chunks : Len(chunks[c]) = recordsPerDay
            /\ (n % recordsPerDay # 0) =>
                   /\ Len(chunks) = (n \div recordsPerDay) + 1
                   /\ \A c \in 1..(Len(chunks) - 1) : Len(chunks[c]) = recordsPerDay
                   /\ Len(chunks[Len(chunks)]) = n % recordsPerDay

\* C5, witness: four readings at two records a day cut into two chunks of two.
C5_Witness ==
    /\ probe.fn = "chunks" /\ probe.done /\ ~probe.repeatLastValue
    /\ probe.sampleRate = 720
    /\ probe.data_list = <<Reading(1), Reading(2), Reading(2), Reading(1)>>
    /\ probe.chunks = <<<<Reading(1), Reading(2)>>, <<Reading(2), Reading(1)>>>>

\* C6: with repeatLastValue and k chunks, every chunk before the last has
\* recordsPerDay + 1 readings, the last of them the first reading of the next chunk;
\* the last chunk keeps its length; without the boundary duplicates the chunks are the
\* input sequence.
C6_BoundaryRepeated ==
    (probe.fn = "chunks" /\ probe.done /\ probe.repeatLastValue) =>
        LET recordsPerDay == 1440 \div probe.sampleRate
            n == Len(probe.data_list)
            chunks == probe.chunks
            k == Len(chunks)
            plain == [c \in 1..k |-> IF c < k THEN SubSeq(chunks[c], 1, Len(chunks[c]) - 1)
                                     ELSE chunks[c]]
        IN  /\ k = CeilDiv(n, recordsPerDay)
            /\ \A c \in 1..(k - 1) :
                   /\ Len(chunks[c]) = recordsPerDay + 1
                   /\ chunks[c][recordsPerDay + 1] = chunks[c + 1][1]
            /\ k >= 1 => Len(chunks[k]) = n - (k - 1) * recordsPerDay
            /\ Flatten(plain) = probe.data_list

\* C6, witness: five readings at two records a day: two chunks of three ending on the next chunk's first reading, and a last chunk of one.
C6_Witness ==
    /\ probe.fn = "chunks" /\ probe.done /\ probe.repeatLastValue
    /\ probe.sampleRate = 720
    /\ probe.data_list = <<Reading(1), Reading(1), Reading(2), Reading(1), Reading(2)>>
    /\ probe.chunks = <<<<Reading(1), Reading(1), Reading(2)>>,
                        <<Reading(2), Reading(1), Reading(2)>>, <<Reading(2)>>>>

\* C7: for n = ordinal + offset >= 1 the label is the bijective base-26 numeral of n
\* (letters A..Z, read back as n; 1 is A, 26 is Z, 27 is AA, ordinal 1 with offset 3
\* is D), and it is empty for n <= 0.
C7_ColumnLabel ==
    (probe.fn = "codec" /\ probe.done) =>
        LET n == probe.n + probe.offset
        IN  /\ n >= 1 => /\ probe.label # <<>>
                         /\ \A k \in DOMAIN probe.label : probe.label[k] \in Range(Upper)
                         /\ LabelValue(probe.label) = n
            /\ n <= 0 => probe.label = <<>>
            /\ n = 1 => probe.label = <<"A">>
            /\ n = 26 => probe.label = <<"Z">>
            /\ n = 27 => probe.label = <<"A", "A">>
            /\ (probe.n = 1 /\ probe.offset = 3) => probe.label = <<"D">>

\* C7, witness: ordinal 700 with offset 3 is the three-letter label AAA.
C7_Witness ==
    /\ probe.fn = "codec" /\ probe.done
    /\ probe.n = 700 /\ probe.offset = 3
    /\ probe.label = <<"A", "A", "A">>

\* C1: a run that ends in a fatal error (ConfigError, MetadataNotFound,
\* InconsistentInput, InvalidDirective, OutOfRange) has not saved the workbook: the
\* file is what it was when the run started.
C1_FatalErrorSavesNothing ==
    (pc = "failed" /\ err.kind \in FatalKinds) => disk = diskBefore

\* C1, witness: a run that failed with OutOfRange while an earlier run's workbook was on disk, the file untouched.
C1_Witness ==
    /\ pc = "failed"
    /\ err.kind = "OutOfRange"
    /\ diskBefore.exists
    /\ disk = diskBefore

StageOrder ==
    <<"INGEST", "VALIDATE", "SELECT_DAYS", "PARTITION_AND_WRITE_RAW", "COMPUTE_AVERAGES">>

Rank(stage) == CHOOSE k \in DOMAIN StageOrder : StageOrder[k] = stage

IsFormula(v) == "avgOf" \in DOMAIN v \/ "avgFrom" \in DOMAIN v

\* The formulas this run has written.
FormulaCells ==
    {t \in written : /\ t[1] \in DOMAIN wb
                     /\ <<t[2], t[3]>> \in DOMAIN wb[t[1]]
                     /\ IsFormula(wb[t[1]][<<t[2], t[3]>>])}

\* save_by_experimental_days has written the sheet of the subject (its title cell).
Partitioned(key) == <<key, 1, 4>> \in written

\* C2: the stages are entered in the order INGEST, VALIDATE, SELECT_DAYS,
\* PARTITION_AND_WRITE_RAW, COMPUTE_AVERAGES, each at most once; a cell is written only
\* after every file has been ingested and the sample rates and the units are all
\* equal, and a formula only after every subject has been partitioned and written.
C2_StagesInOrder ==
    /\ \A j, k \in DOMAIN stages : j < k => Rank(stages[j]) < Rank(stages[k])
    /\ written # {} =>
          /\ Len(self.validateSampleRate) = Len(files)
          /\ Len(self.validateUnits) = Len(files)
          /\ Keys(list_with_all_data) = {files[k].key : k \in DOMAIN files}
          /\ Cardinality(Range(self.validateSampleRate)) = 1
          /\ Cardinality(Range(self.validateUnits)) = 1
          /\ SubSeq(stages, 1, 4) = SubSeq(StageOrder, 1, 4)
    /\ FormulaCells # {} =>
          /\ \A key \in Keys(list_with_all_data) : Partitioned(key)
          /\ stages = StageOrder

\* C2, witness: a completed run over two files that went through the five stages and wrote formulas.
C2_Witness ==
    /\ pc = "done"
    /\ Len(files) = 2
    /\ stages = StageOrder
    /\ FormulaCells # {}

\* The per-hour formulas of the Group Average sheet once it is complete: in every
\* row from the second on, the column after the subjects' holds the average of the
\* range from column `first` to the last subject's column.
GroupFormulasFrom(first) ==
    LET ga == wb[GA_sheet_name]
        n == Len(list_with_all_data)
    IN  /\ MaxRow(ga) = self.recordsPerDay + 1
        /\ \A c \in 1..n : ga[<<1, c + 1>>] = [text |-> list_with_all_data[c].key]
        /\ \A r \in 2..MaxRow(ga) :
              /\ <<r, n + 2>> \in DOMAIN ga
              /\ "avgFrom" \in DOMAIN ga[<<r, n + 2>>]
              /\ ga[<<r, n + 2>>].avgFrom.row = r
              /\ ga[<<r, n + 2>>].avgTo.row = r
              /\ LabelValue(ga[<<r, n + 2>>].avgFrom.col) = first
              /\ LabelValue(ga[<<r, n + 2>>].avgTo.col) = n + 1

\* C8 as stated: the range of the per-hour formula is exactly the subjects' columns,
\* without the time axis in column A and without the output column.
C8_RangeIsSubjectColumns ==
    (pc = "save" /\ self.computeAverage) => GroupFormulasFrom(2)

\* C8, amended: the range of the per-hour formula starts at the time axis in column A
\* and ends at the last subject's column: it holds every subject's column and the
\* time axis, and not the output column.
C8_RangeFromTimeAxis ==
    (pc = "save" /\ self.computeAverage) => GroupFormulasFrom(1)

\* C8, witness: the complete Group Average sheet of the subjects s1 and s2, whose third row averages A3:C3.
C8_Witness ==
    /\ pc = "save"
    /\ self.computeAverage
    /\ Keys(list_with_all_data) = {"s1", "s2"}
    /\ wb[GA_sheet_name][<<3, 4>>] =
           [avgFrom |-> [col |-> <<"A">>, row |-> 3], avgTo |-> [col |-> <<"C">>, row |-> 3]]

\* C9: after a completed run that skipped averaging, the saved workbook has no
\* Group Average sheet (other than a subject's sheet of that name).
C9_NoGroupSheetWhenSkipped ==
    (pc = "done" /\ ~self.computeAverage) =>
        GA_sheet_name \notin (DOMAIN disk.wb \ Keys(list_with_all_data))

\* C10: no cell is written twice in one run, and no sheet is cleared after the run
\* has written to it.
C10_NoCellWrittenTwice == clobbered = {}

\* C11: when a run completes with averaging not skipped, every operand of every
\* per-subject average formula (sheet S, column of day d + 3, row r with
\* 4 <= r <= recordsPerDay + 3) refers to a cell of the sheet of subject S that the
\* partition filled with a reading under the title "Day d", for every subject, every
\* selected day and every row, also when rows were skipped during extraction or the
\* last day is shorter than recordsPerDay.
C11_OperandsAreFilledReadings ==
    (pc = "done" /\ self.computeAverage) =>
        \A c \in 1..Len(list_with_all_data) :
            LET S == list_with_all_data[c].key
                ga == wb[GA_sheet_name]
                days == self.daysToProcess.list
            IN  \A r \in 4..(self.recordsPerDay + 3) :
                    /\ <<r - 2, c + 1>> \in DOMAIN ga
                    /\ "avgOf" \in DOMAIN ga[<<r - 2, c + 1>>]
                    /\ Len(ga[<<r - 2, c + 1>>].avgOf) = Len(days)
                    /\ \A k \in DOMAIN days :
                          LET o == ga[<<r - 2, c + 1>>].avgOf[k]
                              col == LabelValue(o.col)
                          IN  /\ o.sheet = S
                              /\ o.row = r
                              /\ col = days[k] + 3
                              /\ <<3, col>> \in DOMAIN wb[S]
                              /\ wb[S][<<3, col>>] = [day |-> days[k]]
                              /\ <<r, col>> \in DOMAIN wb[S]
                              /\ "value" \in DOMAIN wb[S][<<r, col>>]

====
